---- MODULE Spec2Model ----
(***************************************************************************)
(* Model of the two Kinde workflows of this repository:                    *)
(*   captureIdpClaimsWorkflow (user:post_authentication), which filters    *)
(*   the identity-token claims of a social login and stores them as JSON   *)
(*   in the user property idp_claims, and                                  *)
(*   handleTokensGeneration (user:tokens_generation), which reads that     *)
(*   property and adds every stored claim to the access and ID tokens.     *)
(*                                                                         *)
(* JavaScript values are pairs <<tag, payload>>:                           *)
(*   <<"str", s>>  <<"num", n>>  <<"bool", b>>  <<"null", "null">>         *)
(*   <<"undef", "undefined">>  <<"arr", elements>>  <<"obj", entries>>     *)
(* An object is the sequence of its own enumerable entries <<key, value>>  *)
(* in insertion order.  A string that holds JSON text is <<"text", tokens>>,*)
(* the sequence of its JSON tokens (white space carries no token).         *)
(***************************************************************************)
EXTENDS Naturals, Sequences, FiniteSets, TLC

VARIABLES
    properties,     \* the store's property definitions: a list of [key, context]
    userProps,      \* userProps[u]: the property values of user u, a list of <<key, value>>
    cap,            \* cap[c]: the state of capture invocation c
    proj            \* the state of the token-generation invocation

vars == <<properties, userProps, cap, proj>>

-----------------------------------------------------------------------------
(* Bounds of the model *)

\* longest raw identity-token claim map of the wide specifications
MaxClaims == 2
\* capture invocations that may be in flight together
NumCaptures == 2

-----------------------------------------------------------------------------
(* JavaScript values and objects *)

Str(s)  == <<"str", s>>
Num(n)  == <<"num", n>>
Bool(b) == <<"bool", b>>
Null    == <<"null", "null">>
Undefined == <<"undef", "undefined">>
Obj(entries) == <<"obj", entries>>
Arr(elems)   == <<"arr", elems>>
Text(tokens) == <<"text", tokens>>

Range(seq) == {seq[i] : i \in 1..Len(seq)}

\* the own keys of an object
Keys(o) == {o[i][1] : i \in 1..Len(o)}

Has(o, k) == k \in Keys(o)

\* o[k] (undefined when o has no own key k)
Get(o, k) ==
    IF Has(o, k)
    THEN LET i == CHOOSE j \in 1..Len(o) : o[j][1] = k IN o[i][2]
    ELSE Undefined

\* o[k] = v: an existing key keeps its place, a new key is added last
ObjSet(o, k, v) ==
    IF Has(o, k)
    THEN [i \in 1..Len(o) |-> IF o[i][1] = k THEN <<k, v>> ELSE o[i]]
    ELSE Append(o, <<k, v>>)

\* String.prototype.startsWith
StartsWith(s, p) == Len(s) >= Len(p) /\ SubSeq(s, 1, Len(p)) = p

\* the characters of a string as the index entries Object.entries gives
RECURSIVE StringEntries(_, _)
StringEntries(s, i) ==
    IF i > Len(s) THEN <<>>
    ELSE <<<<ToString(i - 1), Str(SubSeq(s, i, i))>>>> \o StringEntries(s, i + 1)

\* Object.entries(v).  Object.entries(null) and Object.entries(undefined)
\* throw a TypeError: CanEntries tells whether the call returns.
CanEntries(v) == v[1] \notin {"null", "undef"}

Entries(v) ==
    CASE v[1] = "obj" -> v[2]
      [] v[1] = "arr" -> [i \in 1..Len(v[2]) |-> <<ToString(i - 1), v[2][i]>>]
      [] v[1] = "str" -> StringEntries(v[2], 1)
      [] OTHER -> <<>>

-----------------------------------------------------------------------------
(* JSON text: a sequence of tokens *)

P(c) == <<"p", c>>
Lit(w) == <<"lit", w>>
\* a token no JSON grammar rule accepts
Bad(w) == <<"bad", w>>

\* the token of a scalar value
ScalarToken(v) ==
    CASE v[1] = "bool" -> Lit(v[2])
      [] v[1] = "null" -> Lit("null")
      [] OTHER -> v

RECURSIVE JSONStringifyValue(_), StringifyEntries(_, _), StringifyElems(_, _)

\* the members of an object; a member whose value is undefined is left out
StringifyEntries(o, first) ==
    IF o = <<>> THEN <<>>
    ELSE IF Head(o)[2][1] = "undef" THEN StringifyEntries(Tail(o), first)
    ELSE (IF first THEN <<>> ELSE <<P(",")>>)
         \o <<Str(Head(o)[1]), P(":")>> \o JSONStringifyValue(Head(o)[2])
         \o StringifyEntries(Tail(o), FALSE)

\* the elements of an array; an undefined element is written null
StringifyElems(a, first) ==
    IF a = <<>> THEN <<>>
    ELSE (IF first THEN <<>> ELSE <<P(",")>>)
         \o (IF Head(a)[1] = "undef" THEN <<Lit("null")>> ELSE JSONStringifyValue(Head(a)))
         \o StringifyElems(Tail(a), FALSE)

JSONStringifyValue(v) ==
    CASE v[1] = "obj" -> <<P("{")>> \o StringifyEntries(v[2], TRUE) \o <<P("}")>>
      [] v[1] = "arr" -> <<P("[")>> \o StringifyElems(v[2], TRUE) \o <<P("]")>>
      [] OTHER -> <<ScalarToken(v)>>

\* JSON.stringify(o, null, 2) of an object
JSONStringify(o) == Text(JSONStringifyValue(Obj(o)))

ParseFail == [ok |-> FALSE, val |-> Undefined, rest |-> <<>>]
ParseOk(v, rest) == [ok |-> TRUE, val |-> v, rest |-> rest]

RECURSIVE ParseValue(_), ParseMembers(_, _), ParseElems(_, _)

\* after "{" or ",": "key" : value, then "," or "}"
ParseMembers(ts, acc) ==
    IF Len(ts) < 2 \/ ts[1][1] # "str" \/ ts[2] # P(":") THEN ParseFail
    ELSE LET r == ParseValue(SubSeq(ts, 3, Len(ts))) IN
         IF ~r.ok \/ r.rest = <<>> THEN ParseFail
         ELSE LET o == ObjSet(acc, ts[1][2], r.val) IN
              IF Head(r.rest) = P("}") THEN ParseOk(Obj(o), Tail(r.rest))
              ELSE IF Head(r.rest) = P(",") THEN ParseMembers(Tail(r.rest), o)
              ELSE ParseFail

\* after "[" or ",": value, then "," or "]"
ParseElems(ts, acc) ==
    LET r == ParseValue(ts) IN
    IF ~r.ok \/ r.rest = <<>> THEN ParseFail
    ELSE LET a == Append(acc, r.val) IN
         IF Head(r.rest) = P("]") THEN ParseOk(Arr(a), Tail(r.rest))
         ELSE IF Head(r.rest) = P(",") THEN ParseElems(Tail(r.rest), a)
         ELSE ParseFail

ParseValue(ts) ==
    IF ts = <<>> THEN ParseFail
    ELSE LET t == Head(ts) IN
         CASE t[1] \in {"str", "num"} -> ParseOk(t, Tail(ts))
           [] t[1] = "lit" ->
                IF t[2] = "null" THEN ParseOk(Null, Tail(ts))
                ELSE IF t[2] \in {"true", "false"} THEN ParseOk(Bool(t[2]), Tail(ts))
                ELSE ParseFail
           [] t = P("{") ->
                IF Len(ts) >= 2 /\ ts[2] = P("}")
                THEN ParseOk(Obj(<<>>), SubSeq(ts, 3, Len(ts)))
                ELSE ParseMembers(Tail(ts), <<>>)
           [] t = P("[") ->
                IF Len(ts) >= 2 /\ ts[2] = P("]")
                THEN ParseOk(Arr(<<>>), SubSeq(ts, 3, Len(ts)))
                ELSE ParseElems(Tail(ts), <<>>)
           [] OTHER -> ParseFail

\* JSON.parse(s): ok is FALSE where JSON.parse throws a SyntaxError
JSONParse(s) ==
    LET r == ParseValue(s[2]) IN
    IF r.ok /\ r.rest = <<>> THEN r ELSE ParseFail

-----------------------------------------------------------------------------
(* The property store (the Kinde management API) *)

IDP_CLAIMS_PROPERTY_KEY == "idp_claims"

Users == {"u1", "u2"}

\* no user identifier in the event
NoUser == ""

\* a property definition of the store
PropertyDef(key, context) == [key |-> key, context |-> context]

\* GET properties?context=usr: the definitions of user properties
ListProperties(defs) == SelectSeq(defs, LAMBDA d : d.context = "usr")

\* (propertiesResponse.data.properties || []).some(prop => prop.key === key)
SomeKey(list, key) == \E i \in 1..Len(list) : list[i].key = key

\* how many definitions of the store have this key
CountKey(defs, key) == Cardinality({i \in 1..Len(defs) : defs[i].key = key})

\* a store that merges the members of the new JSON object into the old one
PatchedPropsMerge(props, key, value) ==
    LET old == IF Has(props, key) THEN JSONParse(Get(props, key)) ELSE ParseFail
        new == JSONParse(value)
    IN  IF old.ok /\ new.ok /\ old.val[1] = "obj" /\ new.val[1] = "obj"
        THEN ObjSet(props, key, JSONStringify(old.val[2] \o
                 SelectSeq(new.val[2], LAMBDA e : ~Has(old.val[2], e[1]))))
        ELSE ObjSet(props, key, value)

\* a store that replaces the user's whole property list by the patched property
PatchedPropsReplaceAll(props, key, value) == << <<key, value>> >>

\* PATCH users/{id}/properties with {key: value}: the value of that one
\* property of that one user is replaced whole
PatchedProps(props, key, value) == ObjSet(props, key, value)

\* the value a user's property list gives for a key, after the handler's
\* loop userProperties[prop.key] = prop.value (a later entry overrides)
RECURSIVE ToUserProperties(_, _)
ToUserProperties(list, acc) ==
    IF list = <<>> THEN acc
    ELSE ToUserProperties(Tail(list), ObjSet(acc, Head(list)[1], Head(list)[2]))

-----------------------------------------------------------------------------
(* captureIdpClaimsWorkflow: the pure steps *)

ignoreClaims ==
    {"iss", "aud", "exp", "iat", "nbf", "jti", "azp", "nonce", "auth_time",
     "at_hash", "c_hash", "aio", "ver", "rh", "uti", "ipaddr", "sid", "s_hash"}

\* the loop without its test of the value
RECURSIVE FilterClaimsKeepNull(_, _)
FilterClaimsKeepNull(entries, claimsToStore) ==
    IF entries = <<>> THEN claimsToStore
    ELSE IF Head(entries)[1] \notin ignoreClaims
         THEN FilterClaimsKeepNull(Tail(entries),
                ObjSet(claimsToStore, Head(entries)[1], Head(entries)[2]))
         ELSE FilterClaimsKeepNull(Tail(entries), claimsToStore)

\* the loop without its test of the name
RECURSIVE FilterClaimsKeepIgnored(_, _)
FilterClaimsKeepIgnored(entries, claimsToStore) ==
    IF entries = <<>> THEN claimsToStore
    ELSE IF Head(entries)[2] # Null /\ Head(entries)[2] # Undefined
         THEN FilterClaimsKeepIgnored(Tail(entries),
                ObjSet(claimsToStore, Head(entries)[1], Head(entries)[2]))
         ELSE FilterClaimsKeepIgnored(Tail(entries), claimsToStore)

\* the loop over Object.entries(idTokenClaims) that fills claimsToStore
RECURSIVE FilterClaims(_, _)
FilterClaims(entries, claimsToStore) ==
    IF entries = <<>> THEN claimsToStore
    ELSE LET claimName == Head(entries)[1]
             claimValue == Head(entries)[2]
         IN  IF claimName \notin ignoreClaims
                /\ claimValue # Null
                /\ claimValue # Undefined
             THEN FilterClaims(Tail(entries), ObjSet(claimsToStore, claimName, claimValue))
             ELSE FilterClaims(Tail(entries), claimsToStore)

\* claimsToStore._provider = ...; claimsToStore._last_updated = ...
AddMetadata(claimsToStore, provider, now) ==
    ObjSet(ObjSet(claimsToStore, "_provider", Str(provider)), "_last_updated", Str(now))

\* claimsToStore as it is when JSON.stringify is called
ClaimsToStore(ev, now) ==
    AddMetadata(FilterClaims(ev.claims, <<>>), ev.provider, now)

-----------------------------------------------------------------------------
(* handleTokensGeneration: the pure steps *)

\* the loop without its test of the "_" prefix
RECURSIVE ProjectClaimsNoSkip(_, _)
ProjectClaimsNoSkip(entries, b) ==
    IF entries = <<>> THEN b
    ELSE LET claimName == Head(entries)[1]
             claimValue == Head(entries)[2]
             tokenClaimName == "idp_" \o claimName
         IN  ProjectClaimsNoSkip(Tail(entries),
                    [accessToken |-> ObjSet(b.accessToken, tokenClaimName, claimValue),
                     idToken |-> ObjSet(b.idToken, tokenClaimName, claimValue),
                     wroteAccess |-> b.wroteAccess \cup {tokenClaimName},
                     wroteId |-> b.wroteId \cup {tokenClaimName},
                     claimsAdded |-> b.claimsAdded + 1])

\* the loop building fresh bags instead of adding to the host's
RECURSIVE ProjectClaimsFresh(_, _)
ProjectClaimsFresh(entries, b) ==
    IF entries = <<>> THEN b
    ELSE LET claimName == Head(entries)[1]
             claimValue == Head(entries)[2]
             tokenClaimName == "idp_" \o claimName
         IN  IF StartsWith(claimName, "_")
             THEN ProjectClaimsFresh(Tail(entries), b)
             ELSE ProjectClaimsFresh(Tail(entries),
                    [accessToken |-> ObjSet(<<>>, tokenClaimName, claimValue),
                     idToken |-> ObjSet(<<>>, tokenClaimName, claimValue),
                     wroteAccess |-> b.wroteAccess \cup {tokenClaimName},
                     wroteId |-> b.wroteId \cup {tokenClaimName},
                     claimsAdded |-> b.claimsAdded + 1])

\* the loop over Object.entries(idpClaims): b holds the two bags, the claim
\* names assigned so far and claimsAdded
RECURSIVE ProjectClaims(_, _)
ProjectClaims(entries, b) ==
    IF entries = <<>> THEN b
    ELSE LET claimName == Head(entries)[1]
             claimValue == Head(entries)[2]
             tokenClaimName == "idp_" \o claimName
         IN  IF StartsWith(claimName, "_")
             THEN ProjectClaims(Tail(entries), b)
             ELSE ProjectClaims(Tail(entries),
                    [accessToken |-> ObjSet(b.accessToken, tokenClaimName, claimValue),
                     idToken |-> ObjSet(b.idToken, tokenClaimName, claimValue),
                     wroteAccess |-> b.wroteAccess \cup {tokenClaimName},
                     wroteId |-> b.wroteId \cup {tokenClaimName},
                     claimsAdded |-> b.claimsAdded + 1])

-----------------------------------------------------------------------------
(* Events *)

\* a post-authentication event, as far as the handler reads it:
\* event.context.auth.provider (hasProvider: it is there), its protocol, its
\* provider name, provider.data.idToken.claims (hasClaims: they are there)
\* and event.context.user.id
AuthEvent(hasProvider, protocol, provider, hasClaims, claims, userId) ==
    [hasProvider |-> hasProvider, protocol |-> protocol, provider |-> provider,
     hasClaims |-> hasClaims, claims |-> claims, userId |-> userId]

NoAuthEvent == AuthEvent(FALSE, "", "", FALSE, <<>>, NoUser)

\* a social login with identity-token claims
OAuth2Event(provider, claims, userId) ==
    AuthEvent(TRUE, "oauth2", provider, TRUE, claims, userId)

\* the values new Date().toISOString() may give
Times == {"2026-01-01T00:00:00.000Z", "2026-01-02T00:00:00.000Z"}

\* the one of them the concurrent specification draws
SmallTimes == {"2026-01-01T00:00:00.000Z"}

\* raw identity-token claim maps of the concurrent specification
ClaimsGoogle ==
    << <<"sub", Str("u1")>>, <<"email", Str("a@b.com")>>, <<"nonce", Str("n")>>,
       <<"iss", Str("https://accounts.google.com")>> >>
ClaimsA == << <<"a", Num("1")>>, <<"_x", Str("m")>>, <<"c", Null>> >>
ClaimsB == << <<"b", Num("2")>>, <<"nonce", Str("n")>> >>

SmallClaims == {ClaimsA, ClaimsB}

\* events whose gate (provider, protocol, claims, user) does not pass
GateEvents ==
    {AuthEvent(FALSE, "", "", FALSE, <<>>, "u1"),
     AuthEvent(TRUE, "saml", "okta", TRUE, ClaimsB, "u1"),
     AuthEvent(TRUE, "oauth2", "google", FALSE, <<>>, "u1"),
     AuthEvent(FALSE, "", "", FALSE, <<>>, NoUser),
     OAuth2Event("google", ClaimsB, NoUser)}

SmallEvents ==
    {AuthEvent(FALSE, "", "", FALSE, <<>>, "u1"), OAuth2Event("google", ClaimsB, NoUser)}
    \cup {OAuth2Event("google", cl, "u1") : cl \in SmallClaims}

\* raw claim maps of up to n entries over these names and values
WideNames == {"sub", "nonce", "_x"}
WideValues == {Str("u1"), Num("1"), Null, Undefined}

RECURSIVE ClaimMaps(_)
ClaimMaps(n) ==
    IF n = 0 THEN {<<>>}
    ELSE LET prev == ClaimMaps(n - 1) IN
         prev \cup {Append(o, <<k, v>>) :
                      o \in {m \in prev : Len(m) = n - 1},
                      k \in WideNames, v \in WideValues}

\* an object has each key once
WideClaims == {m \in ClaimMaps(MaxClaims) : Cardinality(Keys(m)) = Len(m)}

WideEvents ==
    GateEvents
    \cup {OAuth2Event(pr, cl, u) : pr \in {"google"}, cl \in WideClaims, u \in Users}
    \cup {OAuth2Event("google", ClaimsGoogle, "u1")}
    \cup {OAuth2Event("microsoft", cl, NoUser) : cl \in {<<>>, ClaimsA}}
    \cup {AuthEvent(TRUE, pt, "okta", TRUE, ClaimsA, u) : pt \in {"saml", ""}, u \in {"u2", NoUser}}

\* a token-generation event: event.user.id and event.context.user.id
TokenEvent(user, contextUser) == [user |-> user, contextUser |-> contextUser]

TokenEvents ==
    {TokenEvent("u1", NoUser), TokenEvent(NoUser, "u1"), TokenEvent(NoUser, NoUser),
     TokenEvent("u2", "u1")}

SmallTokenEvents == {TokenEvent("u1", NoUser), TokenEvent(NoUser, NoUser)}

\* the claim bags the host hands out: empty, or filled by an earlier workflow
FilledBag == << <<"role", Str("admin")>>, <<"idp_a", Num("9")>> >>
Bags == {<<>>, FilledBag}

-----------------------------------------------------------------------------
(* State *)

Captures == 1..NumCaptures

\* capture invocation: pc is idle, list, create, patch (a call is in flight),
\* or returned, done, raised (the invocation has ended); filtered is
\* claimsToStore at the end of the filter loop; error is the failure the
\* invocation met; calls counts the calls it has issued; last tells that the
\* store has applied the patch of this invocation and no later patch for the
\* same user
CapIdle ==
    [pc |-> "idle", event |-> NoAuthEvent, propertyExists |-> FALSE,
     filtered |-> <<>>, claimsToStore |-> <<>>, claimsJson |-> Text(<<>>), error |-> "",
     calls |-> [list |-> 0, create |-> 0, patch |-> 0], last |-> FALSE]

\* token-generation invocation: pc is idle, fetch (the call is in flight),
\* or returned, raised (the invocation has ended); accessToken0 and idToken0
\* are the bags as the host handed them out; wroteAccess and wroteId are the
\* claim names the handler assigned; after is the set of capture invocations
\* for the same user that had completed when this invocation started
ProjIdle ==
    [pc |-> "idle", event |-> TokenEvent(NoUser, NoUser), userId |-> NoUser,
     accessToken |-> <<>>, idToken |-> <<>>,
     accessToken0 |-> <<>>, idToken0 |-> <<>>,
     fetched |-> FALSE, userProperties |-> <<>>,
     parsed |-> FALSE, idpClaims |-> Undefined,
     wroteAccess |-> {}, wroteId |-> {}, claimsAdded |-> 0, after |-> {}]

\* the store before the workflows are deployed: other properties only
InitProperties == <<PropertyDef("kp_usr_city", "usr"), PropertyDef("kp_org_plan", "org")>>
InitUserProps == [u \in Users |-> << <<"kp_usr_city", Text(<<Bad("Brno")>>)>> >>]

Init ==
    /\ properties = InitProperties
    /\ userProps = InitUserProps
    /\ cap = [c \in Captures |-> CapIdle]
    /\ proj = ProjIdle

-----------------------------------------------------------------------------
(* captureIdpClaimsWorkflow *)

\* the handler from filtering the claims to issuing the patch call
IssuePatch(st, now) ==
    LET claimsToStore == ClaimsToStore(st.event, now) IN
    [st EXCEPT !.pc = "patch",
               !.filtered = FilterClaims(st.event.claims, <<>>),
               !.claimsToStore = claimsToStore,
               !.claimsJson = JSONStringify(claimsToStore),
               !.calls.patch = @ + 1]

\* the gates with the test of the user id first
CaptureBeginUserFirst(c, ev) ==
    /\ cap[c].pc = "idle"
    /\ cap' = [cap EXCEPT ![c] =
         IF ev.userId = NoUser
         THEN [CapIdle EXCEPT !.pc = "raised", !.event = ev,
                              !.error = "User ID is required"]
         ELSE IF ~ev.hasProvider \/ ev.protocol # "oauth2" \/ ~ev.hasClaims
         THEN [CapIdle EXCEPT !.pc = "returned", !.event = ev]
         ELSE [CapIdle EXCEPT !.pc = "list", !.event = ev, !.calls.list = 1]]
    /\ UNCHANGED <<properties, userProps, proj>>

\* the gates with the test of the user id after the list call is issued
CaptureBeginUserLate(c, ev) ==
    /\ cap[c].pc = "idle"
    /\ cap' = [cap EXCEPT ![c] =
         IF ~ev.hasProvider \/ ev.protocol # "oauth2" \/ ~ev.hasClaims
         THEN [CapIdle EXCEPT !.pc = "returned", !.event = ev]
         ELSE IF ev.userId = NoUser
         THEN [CapIdle EXCEPT !.pc = "raised", !.event = ev, !.calls.list = 1,
                              !.error = "User ID is required"]
         ELSE [CapIdle EXCEPT !.pc = "list", !.event = ev, !.calls.list = 1]]
    /\ UNCHANGED <<properties, userProps, proj>>

\* the invocation starts: the gates, then the call that lists the properties
CaptureBegin(c, ev) ==
    /\ cap[c].pc = "idle"
    /\ cap' = [cap EXCEPT ![c] =
         IF ~ev.hasProvider \/ ev.protocol # "oauth2"
         THEN [CapIdle EXCEPT !.pc = "returned", !.event = ev]
         ELSE IF ~ev.hasClaims
         THEN [CapIdle EXCEPT !.pc = "returned", !.event = ev]
         ELSE IF ev.userId = NoUser
         THEN [CapIdle EXCEPT !.pc = "raised", !.event = ev,
                              !.error = "User ID is required"]
         ELSE [CapIdle EXCEPT !.pc = "list", !.event = ev, !.calls.list = 1]]
    /\ UNCHANGED <<properties, userProps, proj>>

\* a handler that issues the patch call whether or not the property is listed
CaptureListSkipsCreate(c, now) ==
    /\ cap[c].pc = "list"
    /\ LET propertyExists == SomeKey(ListProperties(properties), IDP_CLAIMS_PROPERTY_KEY) IN
       cap' = [cap EXCEPT ![c] =
                 IssuePatch([cap[c] EXCEPT !.propertyExists = propertyExists], now)]
    /\ UNCHANGED <<properties, userProps, proj>>

\* the list call answers: the property is looked up and, when it is there,
\* the claims are filtered and the patch call is issued
CaptureList(c, now) ==
    /\ cap[c].pc = "list"
    /\ LET propertyExists == SomeKey(ListProperties(properties), IDP_CLAIMS_PROPERTY_KEY) IN
       IF propertyExists
       THEN cap' = [cap EXCEPT ![c] =
                      IssuePatch([cap[c] EXCEPT !.propertyExists = TRUE], now)]
       ELSE cap' = [cap EXCEPT ![c].pc = "create", ![c].calls.create = @ + 1]
    /\ UNCHANGED <<properties, userProps, proj>>

\* the list call fails: the error is logged and thrown again
CaptureListFail(c) ==
    /\ cap[c].pc = "list"
    /\ cap' = [cap EXCEPT ![c].pc = "raised", ![c].error = "list failed"]
    /\ UNCHANGED <<properties, userProps, proj>>

\* the create call reaches the store.  The store has one definition per key:
\* it adds the definition, or answers that the key already exists, which the
\* handler's catch logs and throws again like any other error.
CaptureCreate(c, now) ==
    /\ cap[c].pc = "create"
    /\ IF SomeKey(properties, IDP_CLAIMS_PROPERTY_KEY)
       THEN /\ cap' = [cap EXCEPT ![c].pc = "raised", ![c].error = "already exists"]
            /\ UNCHANGED properties
       ELSE /\ properties' = Append(properties, PropertyDef(IDP_CLAIMS_PROPERTY_KEY, "usr"))
            /\ cap' = [cap EXCEPT ![c] = IssuePatch(cap[c], now)]
    /\ UNCHANGED <<userProps, proj>>

\* a handler that swallows the error of the create call and goes on
CaptureCreateFailContinues(c) ==
    /\ cap[c].pc = "create"
    /\ cap' = [cap EXCEPT ![c] =
                 IssuePatch([cap[c] EXCEPT !.error = "create failed"],
                            CHOOSE t \in Times : TRUE)]
    /\ UNCHANGED <<properties, userProps, proj>>

\* the create call fails for another reason
CaptureCreateFail(c) ==
    /\ cap[c].pc = "create"
    /\ cap' = [cap EXCEPT ![c].pc = "raised", ![c].error = "create failed"]
    /\ UNCHANGED <<properties, userProps, proj>>

\* a store that keeps the value a user already has
CapturePatchFirstWins(c) ==
    /\ cap[c].pc = "patch"
    /\ userProps' = [userProps EXCEPT ![cap[c].event.userId] =
                       IF Has(@, IDP_CLAIMS_PROPERTY_KEY) THEN @
                       ELSE PatchedProps(@, IDP_CLAIMS_PROPERTY_KEY, cap[c].claimsJson)]
    /\ cap' = [d \in Captures |->
                 IF d = c THEN [cap[d] EXCEPT !.pc = "done", !.last = TRUE]
                 ELSE IF cap[d].event.userId = cap[c].event.userId
                 THEN [cap[d] EXCEPT !.last = FALSE]
                 ELSE cap[d]]
    /\ UNCHANGED <<properties, proj>>

\* the patch call reaches the store and the handler returns
CapturePatch(c) ==
    /\ cap[c].pc = "patch"
    /\ userProps' = [userProps EXCEPT ![cap[c].event.userId] =
                       PatchedProps(@, IDP_CLAIMS_PROPERTY_KEY, cap[c].claimsJson)]
    /\ cap' = [d \in Captures |->
                 IF d = c THEN [cap[d] EXCEPT !.pc = "done", !.last = TRUE]
                 ELSE IF cap[d].event.userId = cap[c].event.userId
                 THEN [cap[d] EXCEPT !.last = FALSE]
                 ELSE cap[d]]
    /\ UNCHANGED <<properties, proj>>

\* a patch whose failure leaves the user without the property
CapturePatchFailClears(c) ==
    /\ cap[c].pc = "patch"
    /\ cap' = [cap EXCEPT ![c].pc = "raised", ![c].error = "patch failed"]
    /\ userProps' = [userProps EXCEPT ![cap[c].event.userId] =
                       SelectSeq(@, LAMBDA e : e[1] # IDP_CLAIMS_PROPERTY_KEY)]
    /\ UNCHANGED <<properties, proj>>

\* a handler that issues the failed patch call once more
CapturePatchFailRetry(c) ==
    /\ cap[c].pc = "patch"
    /\ cap[c].calls.patch < 2
    /\ cap' = [cap EXCEPT ![c].error = "patch failed", ![c].calls.patch = @ + 1]
    /\ UNCHANGED <<properties, userProps, proj>>

\* the patch call fails: the error is logged and thrown again
CapturePatchFail(c) ==
    /\ cap[c].pc = "patch"
    /\ cap' = [cap EXCEPT ![c].pc = "raised", ![c].error = "patch failed"]
    /\ UNCHANGED <<properties, userProps, proj>>

\* the host takes the outcome of an ended invocation
CaptureEnd(c) ==
    /\ cap[c].pc \in {"returned", "done", "raised"}
    /\ cap' = [cap EXCEPT ![c] = CapIdle]
    /\ UNCHANGED <<properties, userProps, proj>>

-----------------------------------------------------------------------------
(* handleTokensGeneration *)

\* the invocation starts: the user id, then the call that fetches the properties
ProjBegin(ev, access, id) ==
    /\ proj.pc = "idle"
    /\ LET userId == IF ev.user # NoUser THEN ev.user ELSE ev.contextUser
           st == [ProjIdle EXCEPT !.event = ev, !.userId = userId,
                                  !.accessToken = access, !.idToken = id,
                                  !.accessToken0 = access, !.idToken0 = id,
                                  !.after = {c \in Captures :
                                               /\ cap[c].pc = "done"
                                               /\ cap[c].event.userId = userId}]
       IN  proj' = [st EXCEPT !.pc = IF userId = NoUser THEN "returned" ELSE "fetch"]
    /\ UNCHANGED <<properties, userProps, cap>>

\* the handler from JSON.parse on, without the try around JSON.parse
ParseAndProjectNoCatch(got, idp_claims) ==
    LET r == JSONParse(idp_claims) IN
    IF ~r.ok
    THEN [got EXCEPT !.pc = "raised"]
    ELSE IF ~CanEntries(r.val)
    THEN [got EXCEPT !.pc = "raised", !.parsed = TRUE, !.idpClaims = r.val]
    ELSE LET b == ProjectClaims(Entries(r.val),
                    [accessToken |-> got.accessToken, idToken |-> got.idToken,
                     wroteAccess |-> {}, wroteId |-> {}, claimsAdded |-> 0])
         IN  [got EXCEPT !.pc = "returned", !.parsed = TRUE, !.idpClaims = r.val,
                         !.accessToken = b.accessToken, !.idToken = b.idToken,
                         !.wroteAccess = b.wroteAccess, !.wroteId = b.wroteId,
                         !.claimsAdded = b.claimsAdded]

\* the handler from JSON.parse of the stored string to its end
ParseAndProject(got, idp_claims) ==
    LET r == JSONParse(idp_claims) IN
    IF ~r.ok
    THEN [got EXCEPT !.pc = "returned"]
    ELSE IF ~CanEntries(r.val)
    THEN [got EXCEPT !.pc = "raised", !.parsed = TRUE, !.idpClaims = r.val]
    ELSE LET b == ProjectClaims(Entries(r.val),
                    [accessToken |-> got.accessToken, idToken |-> got.idToken,
                     wroteAccess |-> {}, wroteId |-> {}, claimsAdded |-> 0])
         IN  [got EXCEPT !.pc = "returned", !.parsed = TRUE, !.idpClaims = r.val,
                         !.accessToken = b.accessToken, !.idToken = b.idToken,
                         !.wroteAccess = b.wroteAccess, !.wroteId = b.wroteId,
                         !.claimsAdded = b.claimsAdded]

\* a handler without the test of the property: it reads a member of the
\* missing value and throws
AfterFetchAbsentRaises(st, list) ==
    LET userProperties == ToUserProperties(list, <<>>)
        idp_claims == Get(userProperties, "idp_claims")
        got == [st EXCEPT !.fetched = TRUE, !.userProperties = userProperties]
    IN  IF idp_claims = Undefined \/ idp_claims = Text(<<>>)
        THEN [got EXCEPT !.pc = "raised"]
        ELSE ParseAndProject(got, idp_claims)

\* the handler from the answer of the fetch to its end
AfterFetch(st, list) ==
    LET userProperties == ToUserProperties(list, <<>>)
        idp_claims == Get(userProperties, "idp_claims")
        got == [st EXCEPT !.fetched = TRUE, !.userProperties = userProperties]
    IN  IF idp_claims = Undefined \/ idp_claims = Text(<<>>)
        THEN [got EXCEPT !.pc = "returned"]
        ELSE ParseAndProject(got, idp_claims)

\* the fetch answers with the user's properties
ProjFetch ==
    /\ proj.pc = "fetch"
    /\ proj' = AfterFetch(proj, userProps[proj.userId])
    /\ UNCHANGED <<properties, userProps, cap>>

\* a handler that throws the error of the fetch again
ProjFetchFailRaises ==
    /\ proj.pc = "fetch"
    /\ proj' = [proj EXCEPT !.pc = "raised"]
    /\ UNCHANGED <<properties, userProps, cap>>

\* the fetch fails: the error is logged and the handler returns
ProjFetchFail ==
    /\ proj.pc = "fetch"
    /\ proj' = [proj EXCEPT !.pc = "returned"]
    /\ UNCHANGED <<properties, userProps, cap>>

\* the host mints the tokens
ProjEnd ==
    /\ proj.pc \in {"returned", "raised"}
    /\ proj' = ProjIdle
    /\ UNCHANGED <<properties, userProps, cap>>

-----------------------------------------------------------------------------
(* Specifications *)

CaptureStep(c, times) ==
    \/ \E now \in times : CaptureList(c, now)
    \/ CaptureListFail(c)
    \/ \E now \in times : CaptureCreate(c, now)
    \/ CaptureCreateFail(c)
    \/ CapturePatch(c)
    \/ CapturePatchFail(c)

ProjStep ==
    \/ ProjFetch
    \/ ProjFetchFail
    \/ ProjEnd

\* capture invocations and a token generation of one user, interleaved
Next ==
    \/ \E c \in Captures, ev \in SmallEvents : CaptureBegin(c, ev)
    \/ \E c \in Captures : CaptureStep(c, SmallTimes)
    \/ \E c \in Captures : CaptureEnd(c)
    \/ \E ev \in SmallTokenEvents : ProjBegin(ev, FilledBag, FilledBag)
    \/ ProjStep

Spec == Init /\ [][Next]_vars

\* one authentication with any raw claim map, and token generations of any
\* user before, during and after it
NextWide ==
    \/ \E ev \in WideEvents : CaptureBegin(1, ev)
    \/ CaptureStep(1, Times)
    \/ \E ev \in TokenEvents, b \in Bags : ProjBegin(ev, b, b)
    \/ ProjStep

SpecWide == Init /\ [][NextWide]_vars

\* strings the idp_claims property may hold, written by this workflow or by
\* anyone else who may write the property
StoredObjects ==
    WideClaims
    \cup {AddMetadata(FilterClaims(cl, <<>>), "google", t) : cl \in WideClaims, t \in Times}
    \cup { << <<"a", Num("1")>>, <<"b", Str("x")>>, <<"_provider", Str("google")>>,
              <<"_last_updated", Str("T")>> >>,
           << <<"a", Obj(<< <<"_b", Num("1")>> >>)>>, <<"_c", Arr(<<Num("1")>>)>> >>,
           << <<"_", Null>>, <<"", Bool("true")>>, <<"a_", Bool("false")>> >> }

StoredStrings ==
    {JSONStringify(o) : o \in StoredObjects}
    \cup {Text(ts) : ts \in
         { <<>>,
           <<Bad("not json")>>,
           <<P("{")>>,
           <<P("{"), Str("a"), P(":"), Num("1")>>,
           <<P("{"), Str("a"), P(":"), Num("1"), P(","), P("}")>>,
           <<P("{"), Str("a"), P(":"), Num("1"), P(","), Str("a"), P(":"), Num("2"), P("}")>>,
           <<P("{"), P("}"), P("}")>>,
           <<Lit("null")>>, <<Lit("true")>>, <<Lit("undefined")>>,
           <<Num("5")>>, <<Str("")>>, <<Str("_ab")>>,
           <<P("["), P("]")>>,
           <<P("["), Num("1"), P(","), Str("x"), P("]")>>,
           <<P("["), Lit("null"), P(","), P("]")>> }}

\* the store with any string in idp_claims of user u1, or with none
InitStore ==
    /\ properties = Append(InitProperties, PropertyDef(IDP_CLAIMS_PROPERTY_KEY, "usr"))
    /\ userProps \in
         {InitUserProps}
         \cup {[InitUserProps EXCEPT !["u1"] = PatchedProps(@, IDP_CLAIMS_PROPERTY_KEY, s)] :
                 s \in StoredStrings}
    /\ cap = [c \in Captures |-> CapIdle]
    /\ proj = ProjIdle

\* token generations over a store that holds any string
NextStore ==
    \/ \E ev \in TokenEvents, access \in Bags, id \in Bags : ProjBegin(ev, access, id)
    \/ ProjStep

SpecStore == InitStore /\ [][NextStore]_vars

-----------------------------------------------------------------------------
(* Properties *)

\* the string the store holds in idp_claims of user u (undefined: none)
StoredClaims(u) == Get(ToUserProperties(userProps[u], <<>>), IDP_CLAIMS_PROPERTY_KEY)

\* the snapshot that string parses to
StoredSnapshot(u) ==
    IF StoredClaims(u) = Undefined THEN ParseFail ELSE JSONParse(StoredClaims(u))

TokenName(k) == "idp_" \o k

\* C1: handleTokensGeneration never raises, whatever the fetch answers and
\* whatever string idp_claims holds.
C1_ProjectionNeverRaises == proj.pc # "raised"

\* C2: when the stored snapshot is an object S, then after the handler has
\* returned both bags hold idp_k = S[k] for every key k of S that does not
\* start with "_", and the claims the handler wrote to each bag are exactly those.
C2_ProjectionComplete ==
    (proj.pc = "returned" /\ proj.fetched) =>
        LET r == StoredSnapshot(proj.userId) IN
        (r.ok /\ r.val[1] = "obj") =>
            LET S == r.val[2]
                names == {k \in Keys(S) : ~StartsWith(k, "_")}
            IN  /\ \A k \in names :
                     /\ Get(proj.accessToken, TokenName(k)) = Get(S, k)
                     /\ Get(proj.idToken, TokenName(k)) = Get(S, k)
                /\ proj.wroteAccess = {TokenName(k) : k \in names}
                /\ proj.wroteId = {TokenName(k) : k \in names}

\* a snapshot with claims and metadata has been projected into filled bags
C2_Witness ==
    /\ proj.pc = "returned" /\ proj.fetched
    /\ StoredSnapshot(proj.userId).ok
    /\ StoredSnapshot(proj.userId).val[1] = "obj"
    /\ {"a", "b", "_provider", "_last_updated"} \subseteq Keys(StoredSnapshot(proj.userId).val[2])
    /\ proj.accessToken0 = FilledBag
    /\ proj.claimsAdded = 2

\* C3: the already-exists answer of the create call is taken as success, so
\* no capture invocation raises because the property was created meanwhile,
\* and once an invocation is past the ensure step the store holds exactly one
\* definition with key idp_claims.
C3_EnsurePropertyIdempotent ==
    /\ \A c \in Captures : cap[c].error # "already exists"
    /\ (\E c \in Captures : cap[c].calls.patch > 0) =>
           CountKey(properties, IDP_CLAIMS_PROPERTY_KEY) = 1

Metadata == {"_provider", "_last_updated"}

\* the raw claims the filter lets through
Kept(R) == {k \in Keys(R) : k \notin ignoreClaims /\ Get(R, k) \notin {Null, Undefined}}

Ended == proj.pc \in {"returned", "raised"}

\* C4 as claimed: every token generation for u that starts after a completed
\* capture for u with raw claims R adds idp_k = R[k] to both bags for every
\* kept key k of R, and adds no idp_ claim for an excluded key or a metadata field.
C4_EndToEndAsClaimed ==
    \A c \in proj.after :
        Ended =>
            LET R == cap[c].event.claims IN
            /\ \A k \in Kept(R) :
                 /\ TokenName(k) \in proj.wroteAccess \cap proj.wroteId
                 /\ Get(proj.accessToken, TokenName(k)) = Get(R, k)
                 /\ Get(proj.idToken, TokenName(k)) = Get(R, k)
            /\ \A k \in ignoreClaims \cup Metadata :
                 TokenName(k) \notin proj.wroteAccess \cup proj.wroteId

\* C4 as amended: every token generation for u that starts after a completed
\* capture for u with raw claims R, and whose fetch succeeds, adds
\* idp_k = R[k] to both bags for every kept key k of R that does not begin
\* with "_", and adds no idp_ claim for an excluded key nor for any key that
\* begins with "_".
C4_EndToEnd ==
    \A c \in proj.after :
        (Ended /\ proj.fetched) =>
            LET R == cap[c].event.claims IN
            /\ proj.pc = "returned"
            /\ \A k \in {n \in Kept(R) : ~StartsWith(n, "_")} :
                 /\ TokenName(k) \in proj.wroteAccess \cap proj.wroteId
                 /\ Get(proj.accessToken, TokenName(k)) = Get(R, k)
                 /\ Get(proj.idToken, TokenName(k)) = Get(R, k)
            /\ \A k \in ignoreClaims \cup Metadata \cup {n \in Keys(R) : StartsWith(n, "_")} :
                 TokenName(k) \notin proj.wroteAccess \cup proj.wroteId

\* a token generation that started after a capture of a kept, an excluded
\* and no other claim has added the kept one
C4_Witness ==
    /\ proj.pc = "returned" /\ proj.fetched
    /\ \E c \in proj.after :
         /\ Keys(cap[c].event.claims) = {"sub", "nonce"}
         /\ Kept(cap[c].event.claims) = {"sub"}
    /\ proj.wroteAccess = {"idp_sub"}
    /\ proj.accessToken0 = FilledBag

\* C5: the filtered map has no excluded key and no null or undefined value,
\* has no key the raw map lacks, and has every other key of the raw map with
\* the same value.
C5_ClaimFilter ==
    \A c \in Captures :
        cap[c].calls.patch > 0 =>
            LET R == cap[c].event.claims
                F == cap[c].filtered
            IN  /\ Keys(F) \cap ignoreClaims = {}
                /\ \A k \in Keys(F) : Get(F, k) \notin {Null, Undefined}
                /\ Keys(F) \subseteq Keys(R)
                /\ Cardinality(Keys(F)) = Len(F)
                /\ \A k \in Kept(R) : Has(F, k) /\ Get(F, k) = Get(R, k)

\* a raw map with a kept and a null claim has been filtered
C5_Witness ==
    /\ cap[1].calls.patch > 0
    /\ Len(cap[1].event.claims) = 2
    /\ Get(cap[1].event.claims, "_x") = Null
    /\ Keys(cap[1].filtered) = {"sub"}

\* C6: while the patch of a capture for user u is the last one the store
\* applied for u, the stored value is that capture's filtered claims plus the
\* two metadata fields and nothing else, whatever was stored before.
C6_Overwrite ==
    \A c \in Captures :
        (cap[c].pc = "done" /\ cap[c].last) =>
            LET F == cap[c].filtered
                r == StoredSnapshot(cap[c].event.userId)
            IN  /\ r.ok /\ r.val[1] = "obj"
                /\ Keys(r.val[2]) = Keys(F) \cup Metadata
                /\ \A k \in Keys(F) \ Metadata : Get(r.val[2], k) = Get(F, k)
                /\ Get(r.val[2], "_provider") = Str(cap[c].event.provider)
                /\ Get(r.val[2], "_last_updated")[2] \in Times

\* a capture of {a, _x} and then a capture of {b} have completed for the same
\* user and the store holds b and the metadata only
C6_Witness ==
    /\ cap[1].pc = "done" /\ cap[2].pc = "done"
    /\ ~cap[1].last /\ cap[2].last
    /\ cap[1].event.userId = cap[2].event.userId
    /\ cap[1].event.claims = ClaimsA /\ cap[2].event.claims = ClaimsB
    /\ StoredSnapshot(cap[1].event.userId).ok
    /\ Keys(StoredSnapshot(cap[1].event.userId).val[2]) = {"b"} \cup Metadata

\* C7: no value the capture handler writes to idp_claims has a key that
\* begins with "_" other than _provider and _last_updated.
C7_ReservedPrefix ==
    \A u \in Users :
        LET r == StoredSnapshot(u) IN
        (r.ok /\ r.val[1] = "obj") =>
            \A k \in Keys(r.val[2]) : StartsWith(k, "_") => k \in Metadata

\* the event does not pass the gate of provider, protocol and claims
GateStops(ev) == ~ev.hasProvider \/ ev.protocol # "oauth2" \/ ~ev.hasClaims

NoCalls == [list |-> 0, create |-> 0, patch |-> 0]

StoreUntouched == properties = InitProperties /\ userProps = InitUserProps

\* C8: an invocation whose event has no provider, another protocol or no
\* claims returns normally, with or without a user id, and has issued no
\* call: the store is as it was.
C8_NoOpGate ==
    \A c \in Captures :
        (cap[c].pc # "idle" /\ GateStops(cap[c].event)) =>
            /\ cap[c].pc = "returned"
            /\ cap[c].calls = NoCalls
            /\ StoreUntouched

\* an event of another protocol and without user id has returned
C8_Witness ==
    /\ cap[1].pc = "returned"
    /\ cap[1].event.hasProvider /\ cap[1].event.protocol = "saml"
    /\ cap[1].event.userId = NoUser

\* C9: an invocation whose event passes the gate but has no user id raises
\* "User ID is required" and has issued no call: the store is as it was.
C9_MissingUser ==
    \A c \in Captures :
        (cap[c].pc # "idle" /\ ~GateStops(cap[c].event) /\ cap[c].event.userId = NoUser) =>
            /\ cap[c].pc = "raised"
            /\ cap[c].error = "User ID is required"
            /\ cap[c].calls = NoCalls
            /\ StoreUntouched

\* an oauth2 event with claims and without user id has raised
C9_Witness ==
    /\ cap[1].pc = "raised"
    /\ cap[1].event.protocol = "oauth2" /\ cap[1].event.hasClaims
    /\ cap[1].event.claims = ClaimsA
    /\ cap[1].event.userId = NoUser

\* C10: an invocation whose list, create or patch call failed has raised,
\* and has issued the failed call once and no later call.
C10_FailureSurfaced ==
    \A c \in Captures :
        /\ cap[c].error = "list failed" =>
               cap[c].pc = "raised" /\ cap[c].calls = [list |-> 1, create |-> 0, patch |-> 0]
        /\ cap[c].error = "create failed" =>
               cap[c].pc = "raised" /\ cap[c].calls = [list |-> 1, create |-> 1, patch |-> 0]
        /\ cap[c].error = "patch failed" =>
               /\ cap[c].pc = "raised"
               /\ cap[c].calls.list = 1 /\ cap[c].calls.create <= 1 /\ cap[c].calls.patch = 1

\* each of the three calls has failed in some invocation
C10_Witness ==
    /\ cap[1].error = "patch failed" /\ cap[1].calls.create = 1
    /\ cap[2].error \in {"list failed", "create failed"}

\* the bags are as the host handed them out and the handler has written nothing
BagsUnchanged ==
    /\ proj.accessToken = proj.accessToken0
    /\ proj.idToken = proj.idToken0
    /\ proj.wroteAccess = {} /\ proj.wroteId = {}
    /\ proj.claimsAdded = 0

\* C11: when the fetch succeeded and its answer has no idp_claims property,
\* the handler returns normally and both bags are unchanged.
C11_AbsenceHandling ==
    (Ended /\ proj.fetched /\ ~Has(proj.userProperties, IDP_CLAIMS_PROPERTY_KEY)) =>
        proj.pc = "returned" /\ BagsUnchanged

\* a token generation with filled bags for a user without idp_claims, whose
\* other property was fetched, has ended
C11_Witness ==
    /\ Ended /\ proj.fetched
    /\ Keys(proj.userProperties) = {"kp_usr_city"}
    /\ StoredClaims(proj.userId) = Undefined
    /\ proj.accessToken0 = FilledBag /\ proj.idToken0 = <<>>

\* C12: when the stored idp_claims value is not valid JSON, the handler
\* returns normally and both bags are unchanged.
C12_MalformedHandling ==
    (Ended /\ proj.fetched /\ Has(proj.userProperties, IDP_CLAIMS_PROPERTY_KEY)
        /\ ~JSONParse(Get(proj.userProperties, IDP_CLAIMS_PROPERTY_KEY)).ok) =>
        proj.pc = "returned" /\ BagsUnchanged

\* a token generation with filled bags over the cut-off text {"a":1 has ended
C12_Witness ==
    /\ Ended /\ proj.fetched
    /\ StoredClaims(proj.userId) = Text(<<P("{"), Str("a"), P(":"), Num("1")>>)
    /\ proj.accessToken0 = FilledBag

\* C13: when the fetch failed, the handler returns normally and both bags
\* are unchanged.
C13_FetchFailureAbsorbed ==
    (Ended /\ ~proj.fetched /\ proj.userId # NoUser) =>
        proj.pc = "returned" /\ BagsUnchanged

\* the fetch of a token generation with filled bags has failed for a user
\* whose stored snapshot has claims
C13_Witness ==
    /\ Ended /\ ~proj.fetched /\ proj.userId = "u1"
    /\ StoredSnapshot("u1").ok /\ StoredSnapshot("u1").val[1] = "obj"
    /\ {"a", "b"} \subseteq Keys(StoredSnapshot("u1").val[2])
    /\ proj.accessToken0 = FilledBag

\* C14: a user who has a stored idp_claims value has one after every step
\* of any capture or token-generation invocation, failed ones included.
C14_NeverAbsentAgain ==
    [][\A u \in Users :
         Has(userProps[u], IDP_CLAIMS_PROPERTY_KEY)
             => Has(userProps'[u], IDP_CLAIMS_PROPERTY_KEY)]_vars

\* a user has a snapshot, a later patch for the same user has failed and a
\* token generation has read the snapshot
C14_Witness ==
    /\ cap[1].pc = "done" /\ cap[1].last
    /\ cap[2].error = "patch failed"
    /\ cap[2].event.userId = cap[1].event.userId
    /\ StoredClaims(cap[1].event.userId) = cap[1].claimsJson
    /\ Ended /\ proj.fetched /\ proj.claimsAdded > 0

\* C15: an invocation issues at most one create and one patch call; the
\* store's other definitions stay, at most one is added; the only value
\* written is idp_claims of the user of the event: other users and other
\* properties are as they were.
C15_SideEffectBound ==
    /\ \A c \in Captures : cap[c].calls.create <= 1 /\ cap[c].calls.patch <= 1
    /\ Len(properties) <= Len(InitProperties) + 1
    /\ SubSeq(properties, 1, Len(InitProperties)) = InitProperties
    /\ \A u \in Users :
         /\ Keys(userProps[u]) \subseteq {"kp_usr_city", IDP_CLAIMS_PROPERTY_KEY}
         /\ Get(userProps[u], "kp_usr_city") = Get(InitUserProps[u], "kp_usr_city")
         /\ Has(userProps[u], IDP_CLAIMS_PROPERTY_KEY) =>
                \E c \in Captures : cap[c].pc = "done" /\ cap[c].event.userId = u

\* a capture for u1 has created the definition and patched; u2 is untouched
C15_Witness ==
    /\ cap[1].pc = "done" /\ cap[1].event.userId = "u1"
    /\ cap[1].calls.create = 1 /\ cap[1].calls.patch = 1
    /\ Has(userProps["u1"], IDP_CLAIMS_PROPERTY_KEY)
    /\ userProps["u2"] = InitUserProps["u2"]

\* the whole snapshots a capture of these events can write for user u
WholeSnapshots(u, events, times) ==
    {ClaimsToStore(ev, t) : ev \in {e \in events : ~GateStops(e) /\ e.userId = u}, t \in times}

\* C16: the stored value is the complete JSON of one invocation, never a
\* combination, and it is the JSON of the invocation whose patch the store
\* applied last.
C16_LastWriterWins ==
    /\ \A u \in Users :
         StoredClaims(u) # Undefined =>
             \E S \in WholeSnapshots(u, SmallEvents, SmallTimes) :
                 StoredClaims(u) = JSONStringify(S)
    /\ \A c \in Captures :
         (cap[c].pc = "done" /\ cap[c].last) =>
             /\ StoredClaims(cap[c].event.userId) = cap[c].claimsJson
             /\ cap[c].claimsJson = JSONStringify(cap[c].claimsToStore)

\* invocation 2 ran between the create call and the patch of invocation 1,
\* with other claims, and the store holds the snapshot of invocation 1
C16_Witness ==
    /\ cap[1].pc = "done" /\ cap[1].last /\ cap[1].calls.create = 1
    /\ cap[2].pc = "done" /\ ~cap[2].last /\ cap[2].calls.create = 0
    /\ cap[1].event.userId = cap[2].event.userId
    /\ cap[1].event.claims = ClaimsA /\ cap[2].event.claims = ClaimsB
    /\ StoredClaims(cap[1].event.userId) = cap[1].claimsJson

\* the token claims a snapshot projects to
ProjectedNames(S) == {TokenName(k) : k \in {n \in Keys(S) : ~StartsWith(n, "_")}}

\* C17: the claims a token generation has added are those of no snapshot or
\* of one whole snapshot some capture for the user writes, with its values;
\* never those of two snapshots mixed.
C17_WholeSnapshotSeen ==
    (Ended /\ proj.fetched) =>
        \/ BagsUnchanged /\ ~Has(proj.userProperties, IDP_CLAIMS_PROPERTY_KEY)
        \/ \E S \in WholeSnapshots(proj.userId, SmallEvents, SmallTimes) :
             /\ Get(proj.userProperties, IDP_CLAIMS_PROPERTY_KEY) = JSONStringify(S)
             /\ proj.wroteAccess = ProjectedNames(S)
             /\ proj.wroteId = ProjectedNames(S)
             /\ \A k \in Keys(S) :
                  ~StartsWith(k, "_") =>
                      /\ Get(proj.accessToken, TokenName(k)) = Get(S, k)
                      /\ Get(proj.idToken, TokenName(k)) = Get(S, k)

\* a token generation that started before capture 1 had completed has added
\* the claims of capture 1 while capture 2 has a patch of other claims in flight
C17_Witness ==
    /\ Ended /\ proj.fetched /\ proj.wroteAccess = {"idp_a"}
    /\ 1 \notin proj.after
    /\ cap[1].pc = "done" /\ cap[1].event.claims = ClaimsA
    /\ cap[2].pc = "patch" /\ cap[2].event.claims = ClaimsB
    /\ cap[2].event.userId = proj.userId

\* C18: while the patch call of an invocation is in flight, and after it,
\* the store has the idp_claims definition.
C18_DefinitionBeforeValue ==
    \A c \in Captures :
        cap[c].calls.patch > 0 =>
            /\ SomeKey(ListProperties(properties), IDP_CLAIMS_PROPERTY_KEY)
            /\ cap[c].propertyExists \/ cap[c].calls.create = 1

\* two patch calls are in flight: one invocation created the definition,
\* the other found it listed
C18_Witness ==
    /\ cap[1].pc = "patch" /\ cap[1].calls.create = 1 /\ ~cap[1].propertyExists
    /\ cap[2].pc = "patch" /\ cap[2].calls.create = 0 /\ cap[2].propertyExists

\* the token claims the stored value projects to, whatever its shape
StoredProjectedNames(u) ==
    LET r == StoredSnapshot(u) IN
    IF r.ok /\ CanEntries(r.val)
    THEN {TokenName(Entries(r.val)[i][1]) :
            i \in {j \in 1..Len(Entries(r.val)) : ~StartsWith(Entries(r.val)[j][1], "_")}}
    ELSE {}

\* C19: every claim of a bag before the handler ran is in it afterwards, with
\* its value unless its name is idp_k for a projected key k of the snapshot.
C19_OnlyAdds ==
    Ended =>
        /\ \A n \in Keys(proj.accessToken0) :
             /\ Has(proj.accessToken, n)
             /\ Get(proj.accessToken, n) = Get(proj.accessToken0, n)
                  \/ (proj.fetched /\ n \in StoredProjectedNames(proj.userId))
        /\ \A n \in Keys(proj.idToken0) :
             /\ Has(proj.idToken, n)
             /\ Get(proj.idToken, n) = Get(proj.idToken0, n)
                  \/ (proj.fetched /\ n \in StoredProjectedNames(proj.userId))

\* filled bags after the projection of a snapshot with key a: idp_a has the
\* projected value and role is as it was
C19_Witness ==
    /\ proj.pc = "returned" /\ proj.fetched
    /\ proj.accessToken0 = FilledBag /\ proj.idToken0 = FilledBag
    /\ Get(proj.accessToken, "idp_a") = Num("1")
    /\ Get(proj.idToken, "idp_a") = Num("1")
    /\ Get(proj.accessToken, "role") = Str("admin")
    /\ proj.claimsAdded = 2

EnsureFailures == {"list failed", "create failed", "already exists"}

\* C20: the step in which the list or the create call of an invocation fails
\* leaves every stored value as it was, that invocation has issued no patch
\* call and issues none afterwards, and a stored value changes only in the
\* patch step of an invocation none of whose calls has failed.
C20_FailedEnsureNoPatch ==
    [][\A c \in Captures :
         /\ (cap[c].error = "" /\ cap'[c].error \in EnsureFailures) =>
                /\ cap'[c].pc = "raised"
                /\ cap'[c].calls.patch = 0
                /\ userProps' = userProps
         /\ (cap[c].error \in EnsureFailures /\ cap'[c].error \in EnsureFailures) =>
                cap'[c].calls.patch = 0 /\ cap'[c].pc = "raised"
         /\ (cap'[c].event.userId # NoUser
                /\ userProps'[cap'[c].event.userId] # userProps[cap'[c].event.userId]) =>
                \E d \in Captures : cap[d].pc = "patch" /\ cap[d].error = ""
                                       /\ cap'[d].pc = "done"]_vars

\* the list call of invocation 2 has failed and the user's snapshot is the
\* one invocation 1 wrote
C20_Witness ==
    /\ cap[1].pc = "done" /\ cap[1].last
    /\ cap[2].pc = "raised" /\ cap[2].error = "list failed"
    /\ cap[2].event.userId = cap[1].event.userId
    /\ cap[2].calls.patch = 0
    /\ StoredClaims(cap[1].event.userId) = cap[1].claimsJson

====
